---- MODULE Spec2Model ----
(***************************************************************************)
(* Wisepanel MCP server: the event buffer (src/src/event-buffer.ts) and    *)
(* the tool handlers that drive it (src/src/tools.ts), run on the          *)
(* single-threaded JavaScript event loop.                                  *)
(*                                                                         *)
(* Execution model.  A macrotask (an incoming tool call, a chunk of the    *)
(* upstream stream, a timer, the answer to the cancel request) runs only   *)
(* when no continuation is queued; the continuations it queues (the code   *)
(* after an `await`) run in FIFO order before the next macrotask.          *)
(* `mq` is that queue.  The read loop of a stream handles the messages of  *)
(* one chunk in a row (src/unnamed/part_000:110-119), so while the         *)
(* continuations queued by a message wait, only the stream `chunk` that    *)
(* queued them can deliver further messages.                               *)
(*                                                                         *)
(* Environment.  Each upstream stream belongs to one upstream run: every   *)
(* connection message of stream s carries run_id = idOf[s], and a stream   *)
(* may repeat its connection message.  The reply promise of handleStart    *)
(* (its `resolved` flag and 30 s timer, tools.ts:204-213, 218-224,         *)
(* 230-239) only decides the text handed back to the caller and is left    *)
(* out; so is the text formatting of poll events (tools.ts:255-263).       *)
(***************************************************************************)
EXTENDS Naturals, Sequences, FiniteSets

\* ------------------------------------------------------------------ bounds
\* Total number of events stored in the logs, over all runs.
MaxEvents == 3

\* The same total in the specification that states fairness.
MaxLiveEvents == 2

\* The same total in the specification of one deliberation with every kind
\* of message.
MaxToolEvents == 3

\* ------------------------------------------------------------- fixed sets
RunIds == {"r1", "r2"}
Streams == {"s1", "s2"}
Pollers == {"p1", "p2"}

Rank == [x \in Streams \cup Pollers |->
           IF x \in {"s1", "p1"} THEN 1 ELSE 2]

\* The first name of a non-empty set of names "x1", "x2", ...
FirstFree(S) == CHOOSE x \in S : \A y \in S : Rank[x] <= Rank[y]

idOf == [s \in Streams |-> IF s = "s1" THEN "r1" ELSE "r2"]

\* An optional numeric field is <<>> when absent and <<n>> when present.
OrZero(field) == IF field = <<>> THEN 0 ELSE field[1]

INTERESTING_TYPES ==
  {"agent_response", "phase_start", "conversation_complete",
   "final", "error", "cost_estimation", "agents_created",
   "billing_complete", "roles_generated"}

\* An SSEEvent: a type tag plus the fields the code reads.  seq is the
\* identity of the event object (its rank among the events stored).
BaseEvent ==
  [type |-> "null", seq |-> 0, run_id |-> "", topic |-> "",
   count |-> <<>>, estimated_cost |-> <<>>, status |-> "",
   conversation |-> [present |-> FALSE, topic |-> ""]]

NoEvent == BaseEvent

\* The messages a stream s can deliver (seq is filled in on arrival).
Messages(s) ==
  { [BaseEvent EXCEPT !.type = "connection", !.run_id = idOf[s], !.topic = "X"],
    [BaseEvent EXCEPT !.type = "agent_response"],
    [BaseEvent EXCEPT !.type = "final", !.status = "completed",
                      !.conversation = [present |-> TRUE, topic |-> "T"]],
    [BaseEvent EXCEPT !.type = "cancelled"],
    [BaseEvent EXCEPT !.type = "heartbeat"] }

\* Every kind of message the handlers and the buffer tell apart: a stream
\* of the one-deliberation specification can deliver any of them.
AllMessages(s) ==
  Messages(s) \cup
  { [BaseEvent EXCEPT !.type = "agents_created", !.count = <<2>>],
    [BaseEvent EXCEPT !.type = "agents_created"],
    [BaseEvent EXCEPT !.type = "final", !.status = "canceled",
                      !.conversation = [present |-> TRUE, topic |-> "T"]],
    [BaseEvent EXCEPT !.type = "final", !.status = "completed"],
    [BaseEvent EXCEPT !.type = "error"],
    [BaseEvent EXCEPT !.type = "phase_start"] }

VARIABLES
  runs,           \* EventBuffer.runs: Map<runId, RunState>
  waiters,        \* EventBuffer.waiters: Map<runId, settle closures>
  poll,           \* per handlePoll call: its position and its wait's closure state
  stream,         \* per handleStart call: the stream's state and its local runId
  activeStreams,  \* tools.ts activeStreams: Map<runId, AbortController>
  cancel,         \* the handleCancel call in flight: its position and run id
  mq,             \* queued continuations (microtasks), FIFO
  chunk,          \* the stream whose chunk queued the waiting continuations, or "none"
  nextSeq,        \* identity given to the next stored event
  appended,       \* history: every event addEvent pushed to a run's log, in order
  delivered,      \* history: every event getNewEvents returned for a run, in order
  polledTo,       \* history: Len(appended[r]) at the last getNewEvents(r)
  publish         \* the handlePublish call in flight: its position and the data sent

vars == <<runs, waiters, poll, stream, activeStreams, cancel, mq, chunk,
          nextSeq, appended, delivered, polledTo, publish>>

\* ------------------------------------------------------------ EventBuffer

NewRun ==
  [events |-> <<>>, lastPollIndex |-> 0, status |-> "running",
   agentsTotal |-> 0, agentsResponded |-> 0, estimatedCost |-> 0,
   finalResult |-> NoEvent, topic |-> ""]

\* Map.set / Map.delete on a function with a restricted domain.
MapSet(m, k, v) == [x \in (DOMAIN m) \cup {k} |-> IF x = k THEN v ELSE m[x]]
MapDelete(m, k) == [x \in (DOMAIN m) \ {k} |-> m[x]]

has(rs, runId) == runId \in DOMAIN rs

\* createRun that creates nothing.
createRun_Never(rs, runId) == rs

createRun(rs, runId) == MapSet(rs, runId, NewRun)

IsInteresting(e) == e.type \in INTERESTING_TYPES

\* addEvent, lines 45-74: push, then the switch on event.type.
ApplyEvent(run, event) ==
  LET pushed == [run EXCEPT !.events = Append(@, event)]
  IN CASE event.type = "connection" ->
            IF event.topic # "" THEN [pushed EXCEPT !.topic = event.topic]
            ELSE pushed
       [] event.type = "agents_created" ->
            [pushed EXCEPT !.agentsTotal = OrZero(event.count)]
       [] event.type = "agent_response" ->
            [pushed EXCEPT !.agentsResponded = @ + 1]
       [] event.type = "cost_estimation" ->
            [pushed EXCEPT !.estimatedCost = OrZero(event.estimated_cost)]
       [] event.type = "final" ->
            [pushed EXCEPT
               !.status = IF event.status = "canceled" THEN "canceled" ELSE "completed",
               !.finalResult = event,
               !.topic = IF @ = "" /\ event.conversation.present
                            /\ event.conversation.topic # ""
                         THEN event.conversation.topic ELSE @]
       [] event.type = "error" -> [pushed EXCEPT !.status = "failed"]
       [] event.type = "cancelled" -> [pushed EXCEPT !.status = "canceled"]
       [] OTHER -> pushed

\* A notify condition that forgets the interesting types.
Notifies_CancelledOnly(event) == event.type = "cancelled"

\* A notify condition that holds for every event.
Notifies_Always(event) == event.type = event.type

\* addEvent, line 76: the condition under which waiters are notified.
Notifies(event) == IsInteresting(event) \/ event.type = "cancelled"

\* slice(lastPollIndex) of the log.
Pending(run) == SubSeq(run.events, run.lastPollIndex + 1, Len(run.events))

\* hasNew that looks at the whole log instead of the part after the cursor.
hasNew_WholeLog(run) ==
  \E i \in 1..Len(run.events) : IsInteresting(run.events[i])

hasNew(run) == \E i \in 1..Len(Pending(run)) : IsInteresting(Pending(run)[i])

RECURSIVE IndexOf(_, _, _)
IndexOf(list, fn, i) ==
  IF i > Len(list) THEN 0
  ELSE IF list[i] = fn THEN i ELSE IndexOf(list, fn, i + 1)

RemoveAt(list, i) == SubSeq(list, 1, i - 1) \o SubSeq(list, i + 1, Len(list))

\* removeWaiter that finds the list but never splices the entry out.
removeWaiter_NoSplice(ws, runId, fn) == ws

removeWaiter(ws, runId, fn) ==
  IF runId \notin DOMAIN ws THEN ws
  ELSE LET idx == IndexOf(ws[runId], fn, 1)
           list == IF idx >= 1 THEN RemoveAt(ws[runId], idx) ELSE ws[runId]
       IN IF Len(list) = 0 THEN MapDelete(ws, runId)
          ELSE [ws EXCEPT ![runId] = list]

IdleCancel == [pc |-> "idle", run |-> ""]

NoData == [runId |-> "", topic |-> "", agentCount |-> 0]

\* reply is history: the payload the last finished handlePublish call returned.
NoReply == [none |-> TRUE]

IdlePublish == [pc |-> "idle", run |-> "", data |-> NoData, reply |-> NoReply]

\* from is history: the length of the run's log when the wait suspended.
IdlePoll ==
  [pc |-> "idle", run |-> "", settled |-> FALSE, timer |-> FALSE,
   resolves |-> 0, wokenBy |-> "none", spliced |-> FALSE, from |-> 0]

\* settle that does not clear the timer.
settle_NoClearTimeout(st, p, by) ==
  IF st.poll[p].settled THEN st
  ELSE LET runId == st.poll[p].run
           found == runId \in DOMAIN st.waiters
                    /\ IndexOf(st.waiters[runId], p, 1) >= 1
       IN [st EXCEPT
             !.waiters = removeWaiter(@, runId, p),
             !.poll[p] = [@ EXCEPT !.settled = TRUE,
                                   !.resolves = @ + 1, !.pc = "resumed",
                                   !.wokenBy = IF @ = "none" THEN by ELSE @,
                                   !.spliced = found],
             !.mq = IF st.poll[p].resolves = 0
                    THEN Append(@, [k |-> "poll", id |-> p])
                    ELSE @]

\* The settle closure of poller p's wait (lines 93-99), called by `by`
\* ("notify" from notifyWaiters, "timeout" from the timer).  st is the
\* record [runs, waiters, poll, mq] the buffer's methods work on.
\* resolve() on a promise that is already resolved queues nothing.
settle(st, p, by) ==
  IF st.poll[p].settled THEN st
  ELSE LET runId == st.poll[p].run
           found == runId \in DOMAIN st.waiters
                    /\ IndexOf(st.waiters[runId], p, 1) >= 1
       IN [st EXCEPT
             !.waiters = removeWaiter(@, runId, p),
             !.poll[p] = [@ EXCEPT !.settled = TRUE, !.timer = FALSE,
                                   !.resolves = @ + 1, !.pc = "resumed",
                                   !.wokenBy = IF @ = "none" THEN by ELSE @,
                                   !.spliced = found],
             !.mq = IF st.poll[p].resolves = 0
                    THEN Append(@, [k |-> "poll", id |-> p])
                    ELSE @]

RECURSIVE CallAll(_, _)
CallAll(st, fns) ==
  IF fns = <<>> THEN st
  ELSE CallAll(settle(st, Head(fns), "notify"), Tail(fns))

\* notifyWaiters that invokes the waiters without clearing the list first.
notifyWaiters_NoDelete(st, runId) ==
  IF runId \notin DOMAIN st.waiters THEN st
  ELSE CallAll(st, st.waiters[runId])

\* notifyWaiters, lines 114-120.
notifyWaiters(st, runId) ==
  IF runId \notin DOMAIN st.waiters THEN st
  ELSE LET copy == st.waiters[runId]
       IN CallAll([st EXCEPT !.waiters = MapDelete(@, runId)], copy)

\* A snapshot that returns everything after the cursor, unfiltered.
Snapshot_NoFilter(run) ==
  [status |-> run.status,
   newEvents |-> Pending(run),
   agentsResponded |-> run.agentsResponded,
   agentsTotal |-> run.agentsTotal]

\* getNewEvents, lines 126-136: the returned snapshot.
Snapshot(run) ==
  [status |-> run.status,
   newEvents |-> SelectSeq(Pending(run), IsInteresting),
   agentsResponded |-> run.agentsResponded,
   agentsTotal |-> run.agentsTotal]

\* getNewEvents that forgets to advance the read cursor.
getNewEvents_NoAdvance(rs, runId) ==
  [result |-> Snapshot(rs[runId]), runs |-> rs]

\* getNewEvents that advances the cursor by the number of events it returns.
getNewEvents_CountReturned(rs, runId) ==
  [result |-> Snapshot(rs[runId]),
   runs |-> [rs EXCEPT ![runId].lastPollIndex =
                          @ + Len(Snapshot(rs[runId]).newEvents)]]

\* getNewEvents, lines 122-137, for a tracked run: the snapshot it returns
\* and the runs map it leaves.
getNewEvents(rs, runId) ==
  [result |-> Snapshot(rs[runId]),
   runs |-> [rs EXCEPT ![runId].lastPollIndex = Len(rs[runId].events)]]

\* setStatus that only overrides a running status.
setStatus_OnlyRunning(rs, runId, status) ==
  IF has(rs, runId) /\ rs[runId].status = "running"
  THEN [rs EXCEPT ![runId].status = status] ELSE rs

setStatus(rs, runId, status) ==
  IF has(rs, runId) THEN [rs EXCEPT ![runId].status = status] ELSE rs

\* ------------------------------------------------------------------- Init

Init ==
  /\ runs = <<>>
  /\ waiters = <<>>
  /\ poll = [p \in Pollers |-> IdlePoll]
  /\ stream = [s \in Streams |-> [st |-> "idle", runId |-> ""]]
  /\ activeStreams = <<>>
  /\ cancel = IdleCancel
  /\ mq = <<>>
  /\ chunk = "none"
  /\ nextSeq = 1
  /\ appended = [r \in RunIds |-> <<>>]
  /\ delivered = [r \in RunIds |-> <<>>]
  /\ polledTo = [r \in RunIds |-> 0]
  /\ publish = IdlePublish

\* No continuation is queued: a macrotask may start.
LoopIdle == mq = <<>>

\* The part of the state the buffer's methods read and write.
Buf == [runs |-> runs, waiters |-> waiters, poll |-> poll, mq |-> mq]

SetBuf(b) ==
  /\ runs' = b.runs
  /\ waiters' = b.waiters
  /\ poll' = b.poll
  /\ mq' = b.mq

\* addEvent that stores the event but keeps the status the run had.
addEvent_StatusKept(b, runId, event) ==
  IF ~has(b.runs, runId) THEN b
  ELSE LET b1 == [b EXCEPT !.runs[runId] =
                     [ApplyEvent(@, event) EXCEPT !.status = b.runs[runId].status]]
       IN IF Notifies(event) THEN notifyWaiters(b1, runId) ELSE b1

\* addEvent that updates the counters only while the run is running.
addEvent_CountsOnlyRunning(b, runId, event) ==
  IF ~has(b.runs, runId) THEN b
  ELSE LET old == b.runs[runId]
           new == ApplyEvent(old, event)
           b1 == [b EXCEPT !.runs[runId] =
                    IF old.status = "running" THEN new
                    ELSE [new EXCEPT !.agentsResponded = old.agentsResponded,
                                     !.agentsTotal = old.agentsTotal]]
       IN IF Notifies(event) THEN notifyWaiters(b1, runId) ELSE b1

\* addEvent, lines 42-79.
addEvent(b, runId, event) ==
  IF ~has(b.runs, runId) THEN b
  ELSE LET b1 == [b EXCEPT !.runs[runId] = ApplyEvent(@, event)]
       IN IF Notifies(event) THEN notifyWaiters(b1, runId) ELSE b1

\* waitForEvents that registers the waiter without starting the timer.
waitForEvents_NoTimer(b, p, runId) ==
  IF has(b.runs, runId) /\ ~hasNew(b.runs[runId])
     /\ b.runs[runId].status = "running"
  THEN [b EXCEPT
          !.poll[p] = [IdlePoll EXCEPT !.pc = "waiting", !.run = runId,
                                       !.from = Len(b.runs[runId].events)],
          !.waiters = MapSet(@, runId,
                        Append(IF runId \in DOMAIN @ THEN @[runId] ELSE <<>>, p))]
  ELSE [b EXCEPT !.poll[p] = [IdlePoll EXCEPT !.pc = "resumed", !.run = runId,
                                              !.wokenBy = "immediate"],
                 !.mq = Append(@, [k |-> "poll", id |-> p])]

\* waitForEvents, lines 82-104, called by poller p.  A promise that is
\* already resolved lets the caller continue in the next microtask.
waitForEvents(b, p, runId) ==
  LET immediate ==
        [b EXCEPT !.poll[p] = [IdlePoll EXCEPT !.pc = "resumed", !.run = runId,
                                               !.wokenBy = "immediate"],
                  !.mq = Append(@, [k |-> "poll", id |-> p])]
  IN IF ~has(b.runs, runId) THEN immediate
     ELSE IF hasNew(b.runs[runId]) \/ b.runs[runId].status # "running"
     THEN immediate
     ELSE [b EXCEPT
             !.poll[p] = [IdlePoll EXCEPT !.pc = "waiting", !.run = runId,
                                          !.timer = TRUE,
                                          !.from = Len(b.runs[runId].events)],
             !.waiters = MapSet(@, runId,
                           Append(IF runId \in DOMAIN @ THEN @[runId] ELSE <<>>, p))]

\* ---------------------------------------------------------------- actions

\* handleStart, lines 187-195: the stream request is issued.  A new call
\* takes the first unused stream.
handleStart(s) ==
  /\ LoopIdle
  /\ stream[s].st = "idle"
  /\ s = FirstFree({x \in Streams : stream[x].st = "idle"})
  /\ stream' = [stream EXCEPT ![s].st = "open"]
  /\ UNCHANGED <<runs, waiters, poll, activeStreams, cancel, mq, chunk,
                 nextSeq, appended, delivered, polledTo,
                 publish>>

\* The stream callback of handleStart, lines 195-203, for one decoded
\* message m of stream s.  The messages of one chunk are handled in a row
\* (src/unnamed/part_000:110-119): the continuations a message queues run
\* only after the later messages of its chunk.
StreamEvent(s, m) ==
  /\ stream[s].st = "open"
  /\ nextSeq <= MaxEvents
  /\ LoopIdle \/ chunk = s
  /\ LET evt == [m EXCEPT !.seq = nextSeq]
         isConn == evt.type = "connection" /\ evt.run_id # ""
         runId == IF isConn THEN evt.run_id ELSE stream[s].runId
         b0 == IF isConn THEN [Buf EXCEPT !.runs = createRun(@, runId)] ELSE Buf
         b1 == IF runId # "" THEN addEvent(b0, runId, evt) ELSE b0
         stored == runId # "" /\ has(b0.runs, runId)
     IN /\ SetBuf(b1)
        /\ stream' = [stream EXCEPT ![s].runId = runId]
        /\ activeStreams' = IF isConn THEN MapSet(activeStreams, runId, s)
                            ELSE activeStreams
        /\ appended' = IF stored
                       THEN [appended EXCEPT ![runId] = Append(@, evt)]
                       ELSE appended
        /\ nextSeq' = IF stored THEN nextSeq + 1 ELSE nextSeq
        /\ chunk' = IF b1.mq # <<>> THEN s ELSE "none"
  /\ UNCHANGED <<cancel, delivered, polledTo,
                 publish>>

\* The stream ends normally: startStream resolves and the then-handler of
\* handleStart runs (lines 216-217).
StreamEnd(s) ==
  /\ LoopIdle
  /\ stream[s].st = "open"
  /\ stream' = [stream EXCEPT ![s].st = "closed"]
  /\ activeStreams' = MapDelete(activeStreams, stream[s].runId)
  /\ UNCHANGED <<runs, waiters, poll, cancel, mq, chunk, nextSeq, appended, delivered, polledTo,
                 publish>>

\* A catch handler that forgets the stream but leaves the status alone.
streamCatch_NoStatus(rs, act, runId) ==
  [runs |-> rs,
   activeStreams |-> IF runId # "" THEN MapDelete(act, runId) ELSE act]

\* The catch handler of handleStart, lines 225-226, of a stream whose local
\* run id is runId: the new runs map and the new activeStreams map.
streamCatch(rs, act, runId) ==
  IF runId # ""
  THEN [runs |-> setStatus(rs, runId, "failed"),
        activeStreams |-> MapDelete(act, runId)]
  ELSE [runs |-> rs, activeStreams |-> act]

\* The connection breaks: startStream rejects and the catch handler runs
\* before any other task (nothing else is queued).
StreamFail(s) ==
  /\ LoopIdle
  /\ stream[s].st = "open"
  /\ stream' = [stream EXCEPT ![s].st = "closed"]
  /\ LET c == streamCatch(runs, activeStreams, stream[s].runId)
     IN /\ runs' = c.runs
        /\ activeStreams' = c.activeStreams
  /\ UNCHANGED <<waiters, poll, cancel, mq, chunk, nextSeq, appended,
                 delivered, polledTo,
                 publish>>

\* handlePoll, lines 243-249: the call up to its await.  A new call takes
\* the first free poller.
PollStart(p, runId) ==
  /\ LoopIdle
  /\ poll[p].pc = "idle"
  /\ p = FirstFree({x \in Pollers : poll[x].pc = "idle"})
  /\ IF ~has(runs, runId)
     THEN UNCHANGED <<runs, waiters, poll, mq>>
     ELSE SetBuf(waitForEvents(Buf, p, runId))
  /\ UNCHANGED <<stream, activeStreams, cancel, chunk, nextSeq, appended,
                 delivered, polledTo,
                 publish>>

\* The timer of poller p's wait fires (line 100).
Timeout(p) ==
  /\ LoopIdle
  /\ poll[p].timer
  /\ SetBuf(settle(Buf, p, "timeout"))
  /\ UNCHANGED <<stream, activeStreams, cancel, chunk, nextSeq, appended, delivered, polledTo,
                 publish>>

\* The response of handlePoll, lines 250-264, when poller p resumes.
PollResponse(p) ==
  LET result == getNewEvents(runs, poll[p].run).result
  IN [status |-> result.status,
      agents_responded |-> result.agentsResponded,
      agents_total |-> result.agentsTotal,
      new_events |-> result.newEvents]

\* handlePoll after its await, lines 250-269: getNewEvents and the response.
PollResume(p) ==
  /\ mq # <<>>
  /\ Head(mq) = [k |-> "poll", id |-> p]
  /\ mq' = Tail(mq)
  /\ LET runId == poll[p].run
         got == getNewEvents(runs, runId)
     IN /\ runs' = got.runs
        /\ delivered' = [delivered EXCEPT ![runId] = @ \o got.result.newEvents]
        /\ polledTo' = [polledTo EXCEPT ![runId] = Len(appended[runId])]
  /\ poll' = [poll EXCEPT ![p] = IdlePoll]
  /\ chunk' = "none"
  /\ UNCHANGED <<waiters, stream, activeStreams, cancel, nextSeq, appended,
                 publish>>

\* handleCancel, lines 288-293: abort the stream and send the cancel request.
\* Aborting an open stream rejects its pending read, so the catch handler of
\* handleStart runs as soon as handleCancel suspends at its await.
CancelStart(runId) ==
  /\ LoopIdle
  /\ cancel.pc = "idle"
  /\ IF runId \in DOMAIN activeStreams
     THEN LET s == activeStreams[runId]
              act == MapDelete(activeStreams, runId)
              c == IF stream[s].st = "open"
                   THEN streamCatch(runs, act, stream[s].runId)
                   ELSE [runs |-> runs, activeStreams |-> act]
          IN /\ stream' = [stream EXCEPT ![s].st = "closed"]
             /\ runs' = c.runs
             /\ activeStreams' = c.activeStreams
     ELSE UNCHANGED <<activeStreams, stream, runs>>
  /\ cancel' = [pc |-> "sent", run |-> runId]
  /\ UNCHANGED <<waiters, poll, mq, chunk, nextSeq, appended, delivered,
                 polledTo,
                 publish>>

\* handleCancel, lines 293-296: the cancel request has succeeded (ok) or
\* thrown (~ok); either way the status is overridden.
CancelFinish(runId, ok) ==
  /\ LoopIdle
  /\ cancel.pc = "sent"
  /\ cancel.run = runId
  /\ runs' = IF has(runs, runId) THEN setStatus(runs, runId, "canceled") ELSE runs
  /\ cancel' = IdleCancel
  /\ UNCHANGED <<waiters, poll, stream, activeStreams, mq, chunk, nextSeq,
                 appended, delivered, polledTo,
                 publish>>

\* ------------------------------------------------------- response payloads
\* The JSON payload a handler returns, as a record; message texts are
\* reduced to a tag.

\* The not-found payload of handlePoll (line 246) and handlePublish (line 303).
RunNotFound == [error |-> "not found"]

\* handlePoll, lines 243-249: the early return, or the call suspends.
handlePollEntry(runId) ==
  IF ~has(runs, runId) THEN RunNotFound ELSE [awaits |-> "waitForEvents"]

\* getResult, lines 139-143, for a tracked run.
getResult(rs, runId) ==
  [status |-> rs[runId].status, result |-> rs[runId].finalResult]

\* handleResult, lines 272-286.
handleResult(runId) ==
  IF ~has(runs, runId) THEN [error |-> "not found"]
  ELSE LET result == getResult(runs, runId)
       IN IF result.status = "running" THEN [error |-> "in progress"]
          ELSE IF result.status = "failed" THEN [error |-> "failed"]
          ELSE IF result.status = "canceled" THEN [error |-> "canceled"]
          ELSE IF result.result = NoEvent THEN [error |-> "no result"]
          ELSE [formatted |-> result.result]

\* handleCancel, line 296: the payload it returns in every case.
handleCancelResponse(runId) == [canceled |-> TRUE, run_id |-> runId]

\* getRunInfo, lines 145-154, for a tracked run.
getRunInfo(rs, runId) ==
  [status |-> rs[runId].status,
   agentsTotal |-> rs[runId].agentsTotal,
   agentsResponded |-> rs[runId].agentsResponded,
   estimatedCost |-> rs[runId].estimatedCost]

\* getPublishData, lines 160-211, for a tracked run: NoData stands for null.
\* Of the data it builds, the fields kept are the upstream run id (taken
\* from the first connection event of the log, else the run id), the topic
\* and the agent count.
getPublishData(rs, runId) ==
  LET run == rs[runId]
      final == run.finalResult
      conns == SelectSeq(run.events, LAMBDA e : e.type = "connection")
  IN IF run.status # "completed" \/ final = NoEvent THEN NoData
     ELSE IF ~final.conversation.present THEN NoData
     ELSE [runId |-> IF conns # <<>> /\ conns[1].run_id # ""
                     THEN conns[1].run_id ELSE runId,
           topic |-> final.conversation.topic,
           agentCount |-> run.agentsTotal]

\* handlePublish, lines 300-304: the early return, or the call goes on to
\* its status checks.
handlePublishEntry(runId) ==
  IF ~has(runs, runId) THEN RunNotFound ELSE [continues |-> "getRunInfo"]

\* getPublishData that does not look at the status.
handlePublishChecks_AnyStatus(runId) ==
  IF ~has(runs, runId) THEN RunNotFound
  ELSE IF runs[runId].finalResult = NoEvent
          \/ ~runs[runId].finalResult.conversation.present
       THEN [error |-> "no publish data"]
       ELSE [sends |-> [runId |-> runId,
                        topic |-> runs[runId].finalResult.conversation.topic,
                        agentCount |-> runs[runId].agentsTotal]]

\* handlePublish, lines 300-321: the error payload it returns before any
\* outbound call, or the data it sends to the Commons.
handlePublishChecks(runId) ==
  IF ~has(runs, runId) THEN RunNotFound
  ELSE LET runInfo == getRunInfo(runs, runId)
           publishData == getPublishData(runs, runId)
       IN IF runInfo.status = "running" THEN [error |-> "in progress"]
          ELSE IF runInfo.status = "failed" THEN [error |-> "failed"]
          ELSE IF runInfo.status = "canceled" THEN [error |-> "canceled"]
          ELSE IF publishData = NoData THEN [error |-> "no publish data"]
          ELSE [sends |-> publishData]

\* handlePublish, lines 299-323: the call up to its await.  It either
\* returns an error payload or issues the outbound publish request.
handlePublish(runId) ==
  /\ LoopIdle
  /\ publish.pc = "idle"
  /\ LET outcome == handlePublishChecks(runId)
     IN publish' = IF "sends" \in DOMAIN outcome
                   THEN [pc |-> "sent", run |-> runId, data |-> outcome.sends,
                         reply |-> NoReply]
                   ELSE [IdlePublish EXCEPT !.run = runId, !.reply = outcome]
  /\ UNCHANGED <<runs, waiters, poll, stream, activeStreams, cancel, mq, chunk,
                 nextSeq, appended, delivered, polledTo>>

\* The answers of the Commons to a publish request.
PublishAnswers == {"ok", "moderation_failed", "already_published", "failed"}

\* handlePublish, lines 323-350: the outbound request has answered.
PublishReturn(answer) ==
  /\ LoopIdle
  /\ publish.pc = "sent"
  /\ publish' = [publish EXCEPT
                   !.pc = "idle",
                   !.reply = IF answer = "ok" THEN [published |-> TRUE]
                             ELSE [error |-> answer]]
  /\ UNCHANGED <<runs, waiters, poll, stream, activeStreams, cancel, mq, chunk,
                 nextSeq, appended, delivered, polledTo>>

Next ==
  \/ \E s \in Streams : handleStart(s)
  \/ \E s \in Streams : \E m \in Messages(s) : StreamEvent(s, m)
  \/ \E s \in Streams : StreamEnd(s)
  \/ \E s \in Streams : StreamFail(s)
  \/ \E p \in Pollers : \E r \in RunIds : PollStart(p, r)
  \/ \E p \in Pollers : Timeout(p)
  \/ \E p \in Pollers : PollResume(p)
  \/ \E r \in RunIds : CancelStart(r)
  \/ \E r \in RunIds : \E ok \in BOOLEAN : CancelFinish(r, ok)

Spec == Init /\ [][Next]_vars

\* One deliberation, polled by one caller at a time, whose stream can deliver
\* every kind of message, with the result and publish tools.
ToolNext ==
  \/ handleStart("s1")
  \/ \E m \in AllMessages("s1") :
       StreamEvent("s1", m) /\ nextSeq' <= MaxToolEvents + 1
  \/ StreamEnd("s1")
  \/ StreamFail("s1")
  \/ \E r \in RunIds : PollStart("p1", r)
  \/ Timeout("p1")
  \/ PollResume("p1")
  \/ \E r \in RunIds : CancelStart(r)
  \/ \E r \in RunIds : \E ok \in BOOLEAN : CancelFinish(r, ok)
  \/ \E r \in RunIds : handlePublish(r)
  \/ \E answer \in PublishAnswers : PublishReturn(answer)

ToolSpec == Init /\ [][ToolNext]_vars

\* ------------------------------------------------------------ properties

\* The steps of the handlers, recognised from the state change.
\* An event was stored in run r's log by this step; it is Last(appended'[r]).
Stored(r) == Len(appended'[r]) = Len(appended[r]) + 1

Last(s) == s[Len(s)]

\* Poller p resumes after its await and calls getNewEvents in this step.
Resumes(p) == poll[p].pc = "resumed" /\ poll'[p].pc = "idle"

\* Poller p calls waitForEvents in this step.
Waits(p) == poll[p].pc = "idle" /\ poll'[p].pc # "idle"

InterestingOnly(s) == SelectSeq(s, LAMBDA e : e.type \in INTERESTING_TYPES)

NoRepeat(s) == \A i, j \in 1..Len(s) : i # j => s[i].seq # s[j].seq

\* C1: every interesting event appended to a run is returned by the first
\* getNewEvents call on that run after the append, in append order: what the
\* calls have returned so far is exactly the interesting events among those
\* appended before the last call.
C1_EveryEventDeliveredInOrder ==
  \A r \in RunIds :
    delivered[r] = InterestingOnly(SubSeq(appended[r], 1, polledTo[r]))

\* C2: no event is returned twice across successive getNewEvents calls on the
\* same run: each appended event occurs at most once among all the events
\* the calls have returned.
C2_NoEventReturnedTwice ==
  \A r \in RunIds : NoRepeat(delivered[r])

\* C2 witness: a run has had events returned by an earlier call, a new
\* interesting event has arrived since, and a further poll is about to call
\* getNewEvents.
C2_Witness ==
  \E p \in Pollers : \E r \in DOMAIN runs :
    /\ poll[p].pc = "resumed" /\ poll[p].run = r
    /\ delivered[r] # <<>>
    /\ runs[r].lastPollIndex >= 1
    /\ Snapshot(runs[r]).newEvents # <<>>

\* The continuation of poller p is queued exactly n times.
Queued(p, n) ==
  Cardinality({i \in 1..Len(mq) : mq[i] = [k |-> "poll", id |-> p]}) = n

\* Poller p is in the waiter list of some run.
Registered(p) ==
  \E r \in DOMAIN waiters : \E i \in 1..Len(waiters[r]) : waiters[r][i] = p

\* C3: if a wait on run r is pending and an interesting event is appended
\* to r, the wait resolves in that very step, by the notification and with
\* its timer cleared, so the timeout cannot be what ends it.
C3_WakeOnInterestingAppend ==
  [][\A p \in Pollers : \A r \in RunIds :
       (/\ poll[p].pc = "waiting" /\ poll[p].run = r
        /\ Stored(r)
        /\ Last(appended'[r]).type \in INTERESTING_TYPES)
       => (/\ poll'[p].pc = "resumed"
           /\ poll'[p].wokenBy = "notify"
           /\ poll'[p].resolves = 1
           /\ ~poll'[p].timer
           /\ Queued(p, 1)')]_vars

\* C3 witness: a wait has been resolved by the notification of an
\* interesting event, the last one appended to its run.
C3_Witness ==
  \E p \in Pollers : \E r \in RunIds :
    /\ poll[p].pc = "resumed" /\ poll[p].run = r
    /\ poll[p].wokenBy = "notify"
    /\ appended[r] # <<>>
    /\ Last(appended[r]).type \in INTERESTING_TYPES

\* C5: a waitForEvents call resolves at once, registering no waiter and
\* starting no timer, when the run is unknown, its status is not running or
\* an interesting event lies after the read cursor; otherwise it appends
\* exactly one waiter for the run, starts its timer and suspends.
C5_ImmediateOrRegistered ==
  [][\A p \in Pollers :
       Waits(p) =>
         LET r == poll'[p].run
             imm == \/ r \notin DOMAIN runs
                    \/ runs[r].status # "running"
                    \/ \E i \in (runs[r].lastPollIndex + 1)..Len(runs[r].events) :
                         runs[r].events[i].type \in INTERESTING_TYPES
             old == IF r \in DOMAIN waiters THEN waiters[r] ELSE <<>>
         IN IF imm
            THEN /\ poll'[p].pc = "resumed"
                 /\ ~poll'[p].timer
                 /\ waiters' = waiters
                 /\ mq' = Append(mq, [k |-> "poll", id |-> p])
            ELSE /\ poll'[p].pc = "waiting"
                 /\ poll'[p].timer
                 /\ ~Registered(p)
                 /\ waiters' = MapSet(waiters, r, Append(old, p))
                 /\ mq' = mq]_vars

\* C5 witness: one call has suspended with a registered waiter while another
\* call has returned at once.
C5_Witness ==
  \E p, q \in Pollers :
    /\ poll[p].pc = "waiting" /\ Registered(p)
    /\ poll[q].pc = "resumed" /\ poll[q].wokenBy = "immediate"

\* C6: a registered waiter settles exactly once.  resolve() runs at most
\* once per wait; once the notification or the timer has settled the wait,
\* the timer is cleared and the waiter is out of the registry (spliced out
\* by the timer path itself), so neither trigger can reach it again.
C6_SettlesOnce ==
  \A p \in Pollers :
    /\ poll[p].resolves <= 1
    /\ poll[p].pc = "waiting" =>
         (poll[p].resolves = 0 /\ ~poll[p].settled /\ poll[p].timer)
    /\ poll[p].wokenBy \in {"notify", "timeout"} =>
         (/\ poll[p].resolves = 1 /\ poll[p].settled
          /\ ~poll[p].timer
          /\ ~Registered(p)
          /\ Queued(p, 1))
    /\ poll[p].wokenBy = "timeout" => poll[p].spliced

\* C6 witness: the timer has won: the wait is settled by its timeout.
C6_Witness ==
  \E p \in Pollers :
    poll[p].wokenBy = "timeout" /\ poll[p].settled /\ poll[p].resolves = 1

\* C7: when addEvent notifies run r, every waiter registered for r is woken
\* exactly once, in registration order; the list of r is gone before the
\* first waiter runs (no waiter finds itself in it); the waiters of the
\* other runs stay registered and pending.
C7_NotifyWakesAll ==
  [][\A r \in RunIds :
       (/\ Stored(r)
        /\ Last(appended'[r]).type \in INTERESTING_TYPES \cup {"cancelled"}
        /\ r \in DOMAIN waiters)
       => (/\ r \notin DOMAIN waiters'
           /\ \A i \in 1..Len(waiters[r]) :
                LET p == waiters[r][i]
                IN /\ poll'[p].pc = "resumed"
                   /\ poll'[p].wokenBy = "notify"
                   /\ poll'[p].resolves = 1
                   /\ ~poll'[p].spliced
           /\ mq' = mq \o [i \in 1..Len(waiters[r]) |->
                             [k |-> "poll", id |-> waiters[r][i]]]
           /\ \A r2 \in (DOMAIN waiters) \ {r} :
                /\ r2 \in DOMAIN waiters'
                /\ waiters'[r2] = waiters[r2]
                /\ \A i \in 1..Len(waiters[r2]) :
                     poll'[waiters[r2][i]] = poll[waiters[r2][i]])]_vars

\* C7 witness: one notification has woken two pollers of the same run.
C7_Witness ==
  /\ \A p \in Pollers : poll[p].pc = "resumed" /\ poll[p].wokenBy = "notify"
  /\ poll["p1"].run = poll["p2"].run
  /\ Len(mq) = 2

\* C8: the registry holds exactly the pending waits: every entry of a run's
\* list is a distinct poller whose wait on that run is unresolved, every
\* unresolved wait is in its run's list, and no list is empty.
C8_RegisteredIffPending ==
  /\ \A r \in DOMAIN waiters :
       /\ waiters[r] # <<>>
       /\ \A i \in 1..Len(waiters[r]) :
            /\ poll[waiters[r][i]].pc = "waiting"
            /\ poll[waiters[r][i]].run = r
            /\ \A j \in 1..Len(waiters[r]) : i # j => waiters[r][i] # waiters[r][j]
  /\ \A p \in Pollers :
       poll[p].pc = "waiting" =>
         /\ poll[p].run \in DOMAIN waiters
         /\ \E i \in 1..Len(waiters[poll[p].run]) : waiters[poll[p].run][i] = p

\* C8 witness: of two waits on one run, one has timed out and left the
\* registry while the other is still registered.
C8_Witness ==
  \E p, q \in Pollers : \E r \in DOMAIN waiters :
    /\ poll[p].pc = "resumed" /\ poll[p].wokenBy = "timeout" /\ poll[p].run = r
    /\ poll[q].pc = "waiting" /\ poll[q].run = r
    /\ waiters[r] = <<q>>

\* C9: when a status override (cancel or stream-failure reporting, i.e.
\* setStatus, which stores no event) moves run r out of running, no wait on
\* r is left pending by that step.
C9_OverrideResolvesWaits ==
  [][\A r \in DOMAIN runs :
       (/\ runs[r].status = "running"
        /\ runs'[r].status # "running"
        /\ appended'[r] = appended[r])
       => \A p \in Pollers : ~(poll'[p].pc = "waiting" /\ poll'[p].run = r)]_vars

\* The stream that feeds run r is over (ended, failed or aborted).
StreamOver(r) == \A s \in Streams : idOf[s] = r => stream[s].st = "closed"

\* C10: once a cancel of a known run has completed, the run is canceled and
\* stays so.  The cancel call closes the run's stream; when the call
\* completes, whatever the cancel request answered and whatever the aborted
\* stream reported meanwhile, the status is canceled; a canceled run whose
\* stream is over stays canceled; and a wait on a canceled run returns at
\* once.
C10_CancelLeavesCanceled ==
  [][\A r \in DOMAIN runs :
       /\ (cancel.pc = "idle" /\ cancel'.pc = "sent" /\ cancel'.run = r)
            => StreamOver(r)'
       /\ (cancel.pc = "sent" /\ cancel.run = r /\ cancel'.pc = "idle")
            => runs'[r].status = "canceled"
       /\ (runs[r].status = "canceled" /\ StreamOver(r))
            => (runs'[r].status = "canceled" /\ StreamOver(r)')
       /\ \A p \in Pollers :
            (Waits(p) /\ poll'[p].run = r /\ runs[r].status = "canceled")
              => poll'[p].pc = "resumed"]_vars

\* C10 witness: a run whose stream never reported a cancellation or a final
\* result is canceled, its stream aborted, and no cancel call is in flight.
C10_Witness ==
  \E r \in DOMAIN runs :
    /\ runs[r].status = "canceled"
    /\ StreamOver(r)
    /\ cancel.pc = "idle"
    /\ \A i \in 1..Len(appended[r]) :
         appended[r][i].type \notin {"cancelled", "final"}

\* The program under the event budget MaxLiveEvents, with the scheduling
\* the event loop guarantees: a timer that is armed fires at some turn of
\* the loop (it can fire only between tasks, hence strong fairness), and a
\* queued continuation runs.
LiveNext == Next /\ nextSeq' <= MaxLiveEvents + 1

FairSpec ==
  /\ Init /\ [][LiveNext]_vars
  /\ \A p \in Pollers : SF_vars(Timeout(p))
  /\ \A p \in Pollers : WF_vars(PollResume(p))

\* C4: every wait resolves and its poll returns: a pending wait always
\* leads to the poll's response.  A wait ended by its timeout is followed
\* by a response with no new events, and with status running if the run is
\* still running.
C4_WaitIsBounded ==
  /\ \A p \in Pollers : (poll[p].pc = "waiting") ~> (poll[p].pc = "idle")
  /\ [][\A p \in Pollers :
          (Resumes(p) /\ poll[p].wokenBy = "timeout")
          => (/\ PollResponse(p).new_events = <<>>
              /\ delivered' = delivered
              /\ PollResponse(p).status = runs[poll[p].run].status
              /\ runs'[poll[p].run].status = runs[poll[p].run].status)]_vars

\* C4 witness: a wait on a running run has been ended by its timeout and
\* its poll is about to respond.
C4_Witness ==
  \E p \in Pollers :
    /\ poll[p].pc = "resumed" /\ poll[p].wokenBy = "timeout"
    /\ runs[poll[p].run].status = "running"

\* The stream s fails in this step: it was open and is closed, and not by a
\* normal end (the connection broke, or handleCancel aborted it).
Fails(s) == stream[s].st = "open" /\ stream'[s].st = "closed" /\ ~StreamEnd(s)

\* C11: when the stream of a created run fails while the run is still
\* running (no terminal event has arrived), that step leaves the status
\* failed; from then on the run is never running again, and every
\* waitForEvents call made on it returns at once.
C11_StreamFailureFailsRun ==
  [][/\ \A s \in Streams :
          (Fails(s) /\ stream[s].runId # ""
           /\ runs[stream[s].runId].status = "running")
          => runs'[stream[s].runId].status = "failed"
     /\ \A r \in DOMAIN runs :
          /\ (StreamOver(r) /\ runs[r].status # "running")
               => runs'[r].status # "running"
          /\ \A p \in Pollers :
               (Waits(p) /\ poll'[p].run = r /\ StreamOver(r)
                /\ runs[r].status # "running")
               => (poll'[p].pc = "resumed" /\ ~poll'[p].timer
                   /\ waiters' = waiters)]_vars

\* C11 witness: a run that received no terminal event is failed because its
\* stream broke (no cancel is involved), and a poll started afterwards has
\* returned from its wait at once.
C11_Witness ==
  \E p \in Pollers : \E r \in DOMAIN runs :
    /\ runs[r].status = "failed"
    /\ StreamOver(r)
    /\ cancel.pc = "idle"
    /\ \A i \in 1..Len(appended[r]) :
         appended[r][i].type \notin {"cancelled", "final"}
    /\ poll[p].pc = "resumed" /\ poll[p].run = r
    /\ poll[p].wokenBy = "immediate"

\* C12: a run's event log is append-only: whatever operation a step
\* performs (createRun, addEvent, getNewEvents, setStatus, a wait, stream
\* ingestion), the run stays tracked and its old log is a prefix of its new
\* log.
C12_LogAppendOnly ==
  [][\A r \in DOMAIN runs :
       /\ r \in DOMAIN runs'
       /\ Len(runs'[r].events) >= Len(runs[r].events)
       /\ SubSeq(runs'[r].events, 1, Len(runs[r].events)) = runs[r].events]_vars

\* C13: the read cursor of every run lies between 0 and the length of its
\* log, and a getNewEvents call leaves the cursor at the length the log has
\* at that call.
C13_CursorWithinLog ==
  /\ [](\A r \in DOMAIN runs :
          /\ runs[r].lastPollIndex \in Nat
          /\ runs[r].lastPollIndex <= Len(runs[r].events))
  /\ [][\A p \in Pollers :
          Resumes(p) =>
            /\ runs'[poll[p].run].lastPollIndex = Len(runs[poll[p].run].events)
            /\ runs'[poll[p].run].events = runs[poll[p].run].events]_vars

\* C13 witness: a run was polled when its log was not empty, events have
\* been appended past the cursor since, and a poll is about to call
\* getNewEvents again.
C13_Witness ==
  \E p \in Pollers : \E r \in DOMAIN runs :
    /\ poll[p].pc = "resumed" /\ poll[p].run = r
    /\ runs[r].lastPollIndex >= 1
    /\ runs[r].lastPollIndex < Len(runs[r].events)

\* C14: createRun for an id that is already tracked is a no-op: in every
\* reachable state, calling it for any tracked run leaves the run registry
\* (log, cursor, status, counters, final result, topic) as it is.
C14_CreateRunIdempotent ==
  \A r \in DOMAIN runs : createRun(runs, r) = runs

\* C15: status transitions are monotonic: a status other than running is
\* final.  No step (an ingested event, a cancel call, a stream-failure
\* report) changes the status of a run that is completed, failed or
\* canceled; in particular a cancel changes only a running status.
C15_StatusMonotonic ==
  [][\A r \in DOMAIN runs :
       runs[r].status # "running"
       => (r \in DOMAIN runs' /\ runs'[r].status = runs[r].status)]_vars

\* C16: a run that is completed, failed or canceled is never running again,
\* whatever is ingested or called afterwards, while an event ingested for it
\* is still appended to its log and counted.
C16_NeverRunningAgain ==
  [][\A r \in DOMAIN runs :
       runs[r].status # "running"
       => /\ r \in DOMAIN runs'
          /\ runs'[r].status # "running"
          /\ Stored(r) =>
               /\ Last(runs'[r].events) = Last(appended'[r])
               /\ Last(appended'[r]).type = "agent_response"
                    => runs'[r].agentsResponded = runs[r].agentsResponded + 1]_vars

\* C17: getNewEvents never returns an event whose type is outside
\* INTERESTING_TYPES: none was ever returned, none is in the response a
\* poll builds; and the call leaves the log as it is, so the events it
\* skipped stay in the log.
C17_OnlyInterestingReturned ==
  /\ [](\A r \in RunIds : \A i \in 1..Len(delivered[r]) :
          delivered[r][i].type \in INTERESTING_TYPES)
  /\ [][\A p \in Pollers :
          Resumes(p) =>
            /\ \A i \in 1..Len(PollResponse(p).new_events) :
                 PollResponse(p).new_events[i].type \in INTERESTING_TYPES
            /\ runs'[poll[p].run].events = runs[poll[p].run].events]_vars

\* C17 witness: getNewEvents has returned some events of a run and skipped
\* others, and a skipped one that is not interesting is still in the log
\* behind the cursor.
C17_Witness ==
  \E r \in DOMAIN runs :
    /\ delivered[r] # <<>>
    /\ \E i \in 1..runs[r].lastPollIndex :
         /\ runs[r].events[i].type \notin INTERESTING_TYPES
         /\ \A j \in 1..Len(delivered[r]) :
              delivered[r][j].seq # runs[r].events[i].seq

\* C18: connection events and cancellation events are interesting: one
\* that lies after the cursor is in the newEvents of the next getNewEvents
\* call, and appending one wakes the waiters pending on the run.
C18_ConnectionAndCancelledInteresting ==
  [][/\ \A p \in Pollers :
          Resumes(p) =>
            LET run == runs[poll[p].run]
            IN \A i \in (run.lastPollIndex + 1)..Len(run.events) :
                 run.events[i].type \in {"connection", "cancelled"}
                 => \E j \in 1..Len(PollResponse(p).new_events) :
                      PollResponse(p).new_events[j] = run.events[i]
     /\ \A r \in RunIds :
          (/\ Stored(r)
           /\ Last(appended'[r]).type \in {"connection", "cancelled"}
           /\ r \in DOMAIN waiters)
          => r \notin DOMAIN waiters']_vars

\* C19: appending an event that is neither interesting nor the
\* cancellation signal resolves no wait: the step leaves the waiter
\* registry, every poll and the queue of continuations as they were.  A
\* pending wait ends only by a notification from an appended interesting or
\* cancellation event, or by its own timeout.
C19_UninterestingWakesNobody ==
  [][/\ \A r \in RunIds :
          (Stored(r)
           /\ Last(appended'[r]).type \notin INTERESTING_TYPES \cup {"cancelled"})
          => (waiters' = waiters /\ poll' = poll /\ mq' = mq)
     /\ \A p \in Pollers :
          (poll[p].pc = "waiting" /\ poll'[p] # poll[p])
          => \/ /\ poll'[p].wokenBy = "timeout"
                /\ appended' = appended
             \/ /\ poll'[p].wokenBy = "notify"
                /\ Stored(poll[p].run)
                /\ Last(appended'[poll[p].run]).type
                     \in INTERESTING_TYPES \cup {"cancelled"}]_vars

\* C19 witness: a wait is still pending and registered although an event
\* that is neither interesting nor a cancellation has been appended to its
\* run since it suspended.
C19_Witness ==
  \E p \in Pollers :
    /\ poll[p].pc = "waiting" /\ Registered(p)
    /\ Len(runs[poll[p].run].events) > poll[p].from
    /\ Last(runs[poll[p].run].events).type
         \notin INTERESTING_TYPES \cup {"cancelled"}

\* A structured not-found error payload.
IsNotFound(payload) == payload = [error |-> "not found"]

\* The handleCancel call for run r returns in this step.
CancelReturns(r) == cancel.pc = "sent" /\ cancel.run = r /\ cancel'.pc = "idle"

\* C20: for a run id that is not tracked, poll, result, cancel and publish
\* each return a not-found error payload, and the steps of these calls
\* leave the run registry and the waiter registry unchanged.
C20_UnknownRunNotFound ==
  [][\A r \in RunIds \ DOMAIN runs :
       /\ IsNotFound(handlePollEntry(r))
       /\ IsNotFound(handleResult(r))
       /\ IsNotFound(handlePublishEntry(r))
       /\ \A p \in Pollers : PollStart(p, r) => UNCHANGED <<runs, waiters>>
       /\ CancelStart(r) => UNCHANGED <<runs, waiters>>
       /\ CancelReturns(r) =>
            (IsNotFound(handleCancelResponse(r)) /\ UNCHANGED <<runs, waiters>>)]_vars

\* The error tag that names a status for which no result can be fetched or
\* published.
WrongState(status) == IF status = "running" THEN "in progress" ELSE status

\* C21: handlePublish issues the outbound publish request only for a run
\* that is completed and has its final result cached when the request is
\* issued; for a run that is running, failed or canceled, publish and result
\* return the error payload naming that status, and a publish call changes
\* neither the run registry nor the waiter registry.
C21_PublishOnlyCompleted ==
  [][\A r \in DOMAIN runs :
       /\ handlePublish(r) =>
            /\ UNCHANGED <<runs, waiters>>
            /\ publish'.pc = "sent" =>
                 /\ runs[r].status = "completed"
                 /\ runs[r].finalResult # NoEvent
                 /\ runs[r].finalResult.type = "final"
                 /\ publish'.data = getPublishData(runs, r)
            /\ runs[r].status \in {"running", "failed", "canceled"} =>
                 /\ publish'.pc = "idle"
                 /\ publish'.reply = [error |-> WrongState(runs[r].status)]
       /\ runs[r].status \in {"running", "failed", "canceled"} =>
            handleResult(r) = [error |-> WrongState(runs[r].status)]]_vars

\* C21 witness: a publish call on a run that holds a publishable final
\* result but is canceled has returned the error payload instead of
\* sending.
C21_Witness ==
  \E r \in DOMAIN runs :
    /\ publish.pc = "idle" /\ publish.run = r
    /\ publish.reply = [error |-> "canceled"]
    /\ runs[r].status = "canceled"
    /\ runs[r].finalResult.conversation.present

\* C22: addEvent maps terminal events to the status.  Applied to any
\* tracked run in any reachable state: a final event leaves the status
\* completed (canceled when the event's own status is canceled) and is
\* cached as the final result; an error event leaves it failed; a cancelled
\* event leaves it canceled; an event of any other type leaves the status
\* and the cached final result as they were.  Every event is appended.
C22_TerminalEventsSetStatus ==
  \A r \in DOMAIN runs : \A e \in AllMessages("s1") :
    LET after == addEvent(Buf, r, e).runs[r]
    IN /\ after.events = Append(runs[r].events, e)
       /\ e.type = "final" =>
            /\ after.status =
                 (IF e.status = "canceled" THEN "canceled" ELSE "completed")
            /\ after.finalResult = e
       /\ e.type = "error" =>
            (after.status = "failed" /\ after.finalResult = runs[r].finalResult)
       /\ e.type = "cancelled" =>
            (after.status = "canceled" /\ after.finalResult = runs[r].finalResult)
       /\ e.type \notin {"final", "error", "cancelled"} =>
            /\ after.status = runs[r].status
            /\ after.finalResult = runs[r].finalResult

\* C22 witness: a final event whose own status is canceled has been
\* ingested: it is the last event of the log, it is cached as the final
\* result, and the run is canceled.
C22_Witness ==
  \E r \in DOMAIN runs :
    /\ runs[r].events # <<>>
    /\ Last(runs[r].events).type = "final"
    /\ Last(runs[r].events).status = "canceled"
    /\ runs[r].finalResult = Last(runs[r].events)
    /\ runs[r].status = "canceled"

\* The number of agent_response events in a log.
Responses(events) ==
  Cardinality({i \in 1..Len(events) : events[i].type = "agent_response"})

\* The count of the last agents_created event of a log, 0 if there is none
\* or if it carries no count.
LastCount(events) ==
  LET created == SelectSeq(events, LAMBDA e : e.type = "agents_created")
  IN IF created = <<>> THEN 0
     ELSE IF Last(created).count = <<>> THEN 0
     ELSE Last(created).count[1]

\* C23: for every tracked run, running or not, agentsResponded is the
\* number of agent_response events in its log and agentsTotal is the count
\* of its last agents_created event (0 if none); getRunInfo, getNewEvents
\* and the poll response report these values.
C23_CountersMatchLog ==
  /\ [](\A r \in DOMAIN runs :
          /\ runs[r].agentsResponded = Responses(runs[r].events)
          /\ runs[r].agentsTotal = LastCount(runs[r].events)
          /\ getRunInfo(runs, r).agentsResponded = Responses(runs[r].events)
          /\ getRunInfo(runs, r).agentsTotal = LastCount(runs[r].events)
          /\ getNewEvents(runs, r).result.agentsResponded = Responses(runs[r].events)
          /\ getNewEvents(runs, r).result.agentsTotal = LastCount(runs[r].events))
  /\ [][\A p \in Pollers :
          Resumes(p) =>
            /\ PollResponse(p).agents_responded = Responses(runs[poll[p].run].events)
            /\ PollResponse(p).agents_total = LastCount(runs[poll[p].run].events)]_vars

\* C23 witness: a run that is no longer running has counted an agent
\* response that arrived after its terminal event.
C23_Witness ==
  \E r \in DOMAIN runs :
    /\ runs[r].status # "running"
    /\ runs[r].agentsResponded >= 1
    /\ Last(runs[r].events).type = "agent_response"
    /\ \E i \in 1..(Len(runs[r].events) - 1) :
         runs[r].events[i].type \in {"final", "error", "cancelled"}

\* C24: in stream ingestion createRun precedes every addEvent for the same
\* id: the run id a stream callback forwards to is always tracked, and
\* every message the callback forwards is stored at the end of that run's
\* log, never dropped.
C24_CreateBeforeForward ==
  /\ [](\A s \in Streams :
          stream[s].runId # "" => has(runs, stream[s].runId))
  /\ [][\A s \in Streams : \A m \in Messages(s) :
          (StreamEvent(s, m) /\ stream'[s].runId # "")
          => /\ Stored(stream'[s].runId)
             /\ Last(runs'[stream'[s].runId].events)
                  = Last(appended'[stream'[s].runId])
             /\ Last(appended'[stream'[s].runId]).type = m.type]_vars

\* C24 witness: a stream has confirmed its run and a message that followed
\* the connection message is in the run's log.
C24_Witness ==
  \E s \in Streams :
    /\ stream[s].runId # ""
    /\ has(runs, stream[s].runId)
    /\ Len(runs[stream[s].runId].events) >= 2
    /\ runs[stream[s].runId].events[1].type = "connection"

\* The interesting events appended to run r that no getNewEvents call has
\* returned yet, in append order.
Undelivered(r) ==
  SelectSeq(appended[r],
            LAMBDA e : /\ IsInteresting(e)
                       /\ \A j \in 1..Len(delivered[r]) : delivered[r][j].seq # e.seq)

\* C25: when two poll calls on the same run are in flight together, the
\* poll that resumes receives exactly the interesting events appended to the
\* run that no earlier response carried, in append order: no event is in
\* two responses, none is missing from all of them, and a poll that resumes
\* after the other took everything receives an empty list.
C25_ConcurrentPollsPartition ==
  [][\A p, q \in Pollers :
       (/\ p # q
        /\ Resumes(p)
        /\ poll[q].pc # "idle"
        /\ poll[q].run = poll[p].run)
       => PollResponse(p).new_events = Undelivered(poll[p].run)]_vars

\* The fair program with a caller that keeps polling every run: whenever a
\* poll of run r can be started again and again, one is started.
PollingSpec ==
  /\ FairSpec
  /\ \A r \in RunIds : SF_vars(\E p \in Pollers : PollStart(p, r))

\* C26: once the stream of a created run is over (ended normally, failed
\* or aborted), the run eventually has a status other than running.
C26_EndedStreamLeavesRunning ==
  \A r \in RunIds :
    (has(runs, r) /\ StreamOver(r)) ~> (has(runs, r) /\ runs[r].status # "running")

====
